---- MODULE Spec2Model ----
(***************************************************************************)
(* Model of the Kite tick collector (src/ec2_kite_collector.py):           *)
(* the tick buffer and its lock, the periodic flusher, the market session  *)
(* manager, the main thread with the feed callbacks that run inside        *)
(* kws.connect(), and the chunked end-of-day consolidation.                *)
(***************************************************************************)
EXTENDS Integers, Sequences, FiniteSets, TLC

\* ---------------------------------------------------------------- bounds
\* midnights the model lets pass during one run
MaxDays == 1
\* on_ticks deliveries of the feed during one run
MaxTickCalls == 2
\* I/O failures (write, read, chunk, close, upload) injected during one run
MaxFailures == 1
\* batch files found in TEMP_DATA_DIR when process_eod_data is run on its own
MaxFiles == 16

\* ------------------------------------------------------ program constants
CHUNK_SIZE == 15

\* The four stretches of a day that the clock tests tell apart:
\* [00:00, 09:15), [09:15, 15:30], (15:30, 15:45], (15:45, 24:00).
Phases == <<"pre_open", "open", "closed", "eod">>

\* A value absent from a tick (None in memory), and what read_csv gives for it.
None == "None"
NaN == "NaN"

\* The payloads the feed delivers in successive on_ticks calls, taken in turn:
\* instrument_token and last_price of each tick of the batch.
TickBatches ==
    << << [tok |-> 1, px |-> "100.5"] >>,
       << [tok |-> 1, px |-> None], [tok |-> 2, px |-> "100.5"] >> >>

VARIABLES
    weekday,          \* datetime.now(IST).weekday(), 0 = Monday
    phase,            \* index into Phases of the current wall time
    elapsed,          \* midnights passed since the run began
    SAVE_TO_S3,       \* the archive flag, fixed at process start
    shutdown_event,   \* threading.Event
    data_lock,        \* owner of the lock, "none" when free
    in_memory_ticks,  \* the tick buffer
    main_pc,          \* position of the main thread
    path,             \* which way the main thread reached process_eod_data
    exit_code,        \* process exit status, -1 while running
    past_eod_at_start,\* is_eod_time() was true at the first check (line 757)
    connect_called,   \* kws.connect() has been called
    credentials,      \* what get_kite_credentials() returned, "unfetched" before
    kws,              \* the global KiteTicker: None until it is built, then "ready"
    mgr_pc,           \* position of market_session_manager
    mgr_eod_runs,     \* times the manager ran its EOD shutdown sequence
    mgr_stop_calls,   \* times the manager called kws.stop()
    flusher_pc,       \* position of save_periodic_data
    data_to_save,     \* the flusher's snapshot
    kws_connected,    \* kws.is_connected()
    subscribed,       \* on_connect subscribed the instruments
    stop_requested,   \* kws.stop() was called: the reactor stops
    feed_pc,          \* position of the callback running inside kws.connect()
    pending,          \* ticks of the on_ticks call still to append
    tick_calls,       \* on_ticks calls so far (also the capture timestamp)
    noreconnect_called, \* on_noreconnect has run
    temp_dir,         \* files of TEMP_DATA_DIR
    fclock,           \* creation stamps given to files so far
    failures,         \* I/O failures injected so far
    appended,         \* every record appended to the buffer, in order
    drained,          \* every snapshot a drain took out of the buffer, in order
    eod_pc,           \* position inside process_eod_data
    eod_calls,        \* process_eod_data invocations
    eod_results,      \* how each finished process_eod_data call ended
    remaining_ticks,  \* the final drain's snapshot
    temp_files,       \* the sorted listing of TEMP_DATA_DIR
    listed,           \* process_eod_data has enumerated TEMP_DATA_DIR
    chunk_i,          \* the chunk loop's index i
    file_j,           \* position in temp_files of the next file to read
    chunk_data,       \* the frames read for the current chunk
    chunk_src,        \* the names of the files read for the current chunk
    consumed,         \* names of the files this call read successfully
    chunk_log,        \* what the call logged for each chunk it passed: the
                      \* files read for it and how the chunk ended
    writer,           \* "none", "open" or "closed"
    total_rows_processed,
    schema,           \* the chunk whose table gave the writer's schema, 0 for None
    artifact,         \* the file at eod_filename
    s3_object,        \* the object upload_to_s3 stored in the bucket, if any
    LOCAL_API_KEY,    \* local_host.py: os.getenv("KITE_API_KEY"), None when unset
    LOCAL_API_SECRET, \* local_host.py: os.getenv("KITE_API_SECRET")
    stored_secret,    \* the secret held by Secrets Manager
    token_pc,         \* position in generate_access_token_and_update_secret
    access_token,     \* data["access_token"] of the generated session
    fetch_outcome,    \* how get_current_secret_data ended
    existing_secret_data, \* the dict get_current_secret_data returned
    token_result      \* how generate_access_token_and_update_secret ended

clock_vars == <<weekday, phase, elapsed>>
buffer_vars == <<data_lock, in_memory_ticks, appended, drained>>
main_vars == <<main_pc, path, exit_code, past_eod_at_start, connect_called,
               credentials, kws>>
mgr_vars == <<mgr_pc, mgr_eod_runs, mgr_stop_calls>>
flusher_vars == <<flusher_pc, data_to_save>>
feed_vars == <<kws_connected, subscribed, stop_requested, feed_pc, pending, tick_calls,
               noreconnect_called>>
store_vars == <<temp_dir, fclock, failures>>
eod_vars == <<eod_pc, eod_calls, eod_results, remaining_ticks, temp_files, listed,
              chunk_i, file_j, chunk_data, chunk_src, consumed, chunk_log, writer,
              total_rows_processed, schema, artifact, s3_object>>
secret_vars == <<LOCAL_API_KEY, LOCAL_API_SECRET, stored_secret, token_pc,
                 access_token, fetch_outcome, existing_secret_data, token_result>>
collector_vars == <<clock_vars, SAVE_TO_S3, shutdown_event, buffer_vars, main_vars,
                    mgr_vars, flusher_vars, feed_vars, store_vars, eod_vars>>
vars == <<collector_vars, secret_vars>>

\* ---------------------------------------------------------------- helpers
Min(a, b) == IF a < b THEN a ELSE b

Range(s) == { s[k] : k \in 1..Len(s) }

RECURSIVE Flatten(_)
Flatten(ss) == IF ss = <<>> THEN <<>> ELSE Head(ss) \o Flatten(Tail(ss))

Count(s, x) == Cardinality({ k \in 1..Len(s) : s[k] = x })

\* ------------------------------------------------------------------ clock
is_market_open == Phases[phase] = "open" /\ weekday < 5

is_eod_time == Phases[phase] = "eod"

\* Wall time moves on: to the next stretch of the day, or past midnight.  The
\* clock is read by the main thread up to kws.connect(), by on_connect and by
\* the session manager until the event is set, so the model lets time pass up
\* to the grace period.  The manager polls every 5 minutes at most on a
\* weekday, so the EOD stretch of a session's day does not pass unnoticed:
\* midnight passes only while no session is running.
TimePasses ==
    /\ main_pc \notin {"grace", "in_eod", "exited", "harness"}
    /\ IF phase < Len(Phases)
       THEN phase' = phase + 1 /\ UNCHANGED <<weekday, elapsed>>
       ELSE /\ elapsed < MaxDays
            /\ mgr_pc = "idle"
            /\ phase' = 1
            /\ weekday' = (weekday + 1) % 7
            /\ elapsed' = elapsed + 1
    /\ UNCHANGED <<secret_vars, SAVE_TO_S3, shutdown_event, buffer_vars, main_vars,
                   mgr_vars, flusher_vars, feed_vars, store_vars, eod_vars>>

\* ------------------------------------------------------------------- lock
LockAlwaysFree == TRUE

\* "with data_lock:" can be entered: no thread is inside it (line 56).
LockFree == data_lock = "none"

\* ---------------------------------------------- call of process_eod_data
\* process_eod_data() is entered (line 414).
CallEod ==
    /\ eod_pc' = "acquire"
    /\ eod_calls' = eod_calls + 1

eod_locals == <<eod_results, remaining_ticks, temp_files, listed, chunk_i, file_j,
                chunk_data, chunk_src, consumed, chunk_log, writer,
                total_rows_processed, schema, artifact, s3_object>>

\* ------------------------------------------------------------ main thread
\* The outcomes of get_kite_credentials() and of the credentials check (lines
\* 719-731): None, a secret lacking one of the three keys, or a complete one.
CredentialOutcomes == {None, "incomplete", "complete"}

MainStartupGoesOn ==
    /\ main_pc = "startup"
    /\ \E creds \in CredentialOutcomes, client_ok \in BOOLEAN :
         /\ credentials' = creds
         /\ kws' = IF creds = "complete" /\ client_ok THEN "ready" ELSE None
    /\ main_pc' = "check_eod"
    /\ UNCHANGED <<secret_vars, clock_vars, SAVE_TO_S3, shutdown_event, buffer_vars, path,
                   exit_code, past_eod_at_start, connect_called, mgr_vars,
                   flusher_vars, feed_vars, store_vars, eod_vars>>

\* Lines 717-750: the credentials are fetched and checked and the feed client
\* is built; no credentials, a missing key or an exception from the
\* constructors is exit(1).
MainStartup ==
    /\ main_pc = "startup"
    /\ \E creds \in CredentialOutcomes, client_ok \in BOOLEAN :
         /\ credentials' = creds
         /\ IF creds = "complete" /\ client_ok
            THEN kws' = "ready" /\ main_pc' = "check_eod" /\ UNCHANGED exit_code
            ELSE kws' = None /\ main_pc' = "exited" /\ exit_code' = 1
    /\ UNCHANGED <<secret_vars, clock_vars, SAVE_TO_S3, shutdown_event, buffer_vars, path,
                   past_eod_at_start, connect_called, mgr_vars, flusher_vars,
                   feed_vars, store_vars, eod_vars>>

MainCheckEodNoShortcut ==
    /\ main_pc = "check_eod"
    /\ past_eod_at_start' = (Phases[phase] = "eod")
    /\ main_pc' = "wait"
    /\ UNCHANGED <<secret_vars, clock_vars, SAVE_TO_S3, shutdown_event, buffer_vars, path,
                   exit_code, connect_called, credentials, kws, mgr_vars, flusher_vars,
                   feed_vars, store_vars, eod_vars>>

\* Lines 756-765: already past EOD: process_eod_data is called (line 760);
\* else the main thread goes on to wait.
MainCheckEod ==
    /\ main_pc = "check_eod"
    /\ past_eod_at_start' = (Phases[phase] = "eod")
    /\ IF is_eod_time
       THEN main_pc' = "in_eod" /\ path' = "past_eod" /\ CallEod
       ELSE main_pc' = "wait" /\ UNCHANGED <<path, eod_pc, eod_calls>>
    /\ UNCHANGED <<secret_vars, clock_vars, SAVE_TO_S3, shutdown_event, buffer_vars, exit_code,
                   connect_called, credentials, kws, mgr_vars, flusher_vars, feed_vars,
                   store_vars, eod_locals>>

\* wait_for_market_open, one pass of its "while True" (lines 653-699): it
\* leaves only when the market is open, otherwise it sleeps and looks again.
MainWait ==
    /\ main_pc = "wait"
    /\ IF weekday >= 5 THEN main_pc' = "wait_sleep"
       ELSE IF is_market_open THEN main_pc' = "recheck"
       ELSE main_pc' = "wait_sleep"
    /\ UNCHANGED <<secret_vars, clock_vars, SAVE_TO_S3, shutdown_event, buffer_vars, path,
                   exit_code, past_eod_at_start, connect_called, credentials, kws,
                   mgr_vars, flusher_vars, feed_vars, store_vars, eod_vars>>

\* The inner sleep loops (lines 667-671 and 696-699) end, by time or by
\* shutdown_event, and the outer loop runs again.
MainWaitSleep ==
    /\ main_pc = "wait_sleep"
    /\ main_pc' = "wait"
    /\ UNCHANGED <<secret_vars, clock_vars, SAVE_TO_S3, shutdown_event, buffer_vars, path,
                   exit_code, past_eod_at_start, connect_called, credentials, kws,
                   mgr_vars, flusher_vars, feed_vars, store_vars, eod_vars>>

\* Lines 770-779: the market closed while waiting: process_eod_data is called
\* (line 774); else the main thread goes on to start the session.
MainRecheck ==
    /\ main_pc = "recheck"
    /\ IF is_eod_time
       THEN main_pc' = "in_eod" /\ path' = "closed_waiting" /\ CallEod
       ELSE main_pc' = "start_threads" /\ UNCHANGED <<path, eod_pc, eod_calls>>
    /\ UNCHANGED <<secret_vars, clock_vars, SAVE_TO_S3, shutdown_event, buffer_vars, exit_code,
                   past_eod_at_start, connect_called, credentials, kws, mgr_vars,
                   flusher_vars, feed_vars, store_vars, eod_locals>>

\* Lines 785-791: the two daemon threads start.
MainStartThreads ==
    /\ main_pc = "start_threads"
    /\ main_pc' = "call_connect"
    /\ mgr_pc' = "head"
    /\ flusher_pc' = "head"
    /\ UNCHANGED <<secret_vars, clock_vars, SAVE_TO_S3, shutdown_event, buffer_vars, path,
                   exit_code, past_eod_at_start, connect_called, credentials, kws,
                   mgr_eod_runs, mgr_stop_calls, data_to_save, feed_vars, store_vars,
                   eod_vars>>

\* Line 800: kws.connect() is entered; it blocks in the main thread.
MainConnect ==
    /\ main_pc = "call_connect"
    /\ main_pc' = "connect"
    /\ connect_called' = TRUE
    /\ path' = "session"
    /\ UNCHANGED <<secret_vars, clock_vars, SAVE_TO_S3, shutdown_event, buffer_vars, exit_code,
                   past_eod_at_start, credentials, kws, mgr_vars, flusher_vars,
                   feed_vars, store_vars, eod_vars>>

\* kws.connect() returns once kws.stop() has stopped the reactor.
ConnectReturns ==
    /\ main_pc = "connect" /\ feed_pc = "idle" /\ stop_requested
    /\ main_pc' = "after_connect"
    /\ kws_connected' = FALSE
    /\ subscribed' = FALSE
    /\ UNCHANGED <<secret_vars, clock_vars, SAVE_TO_S3, shutdown_event, buffer_vars, path,
                   exit_code, past_eod_at_start, connect_called, credentials, kws,
                   mgr_vars, flusher_vars, stop_requested, feed_pc, pending,
                   tick_calls, noreconnect_called, store_vars, eod_vars>>

\* Lines 801-806: KeyboardInterrupt or another exception out of kws.connect().
ConnectRaises ==
    /\ main_pc = "connect" /\ feed_pc = "idle"
    /\ main_pc' = "after_connect"
    /\ shutdown_event' = TRUE
    /\ kws_connected' = FALSE
    /\ subscribed' = FALSE
    /\ UNCHANGED <<secret_vars, clock_vars, SAVE_TO_S3, buffer_vars, path, exit_code,
                   past_eod_at_start, connect_called, credentials, kws, mgr_vars,
                   flusher_vars, stop_requested, feed_pc, pending, tick_calls,
                   noreconnect_called, store_vars, eod_vars>>

MainAfterConnectClears ==
    /\ main_pc = "after_connect"
    /\ shutdown_event' = FALSE
    /\ main_pc' = "grace"
    /\ UNCHANGED <<secret_vars, clock_vars, SAVE_TO_S3, buffer_vars, path, exit_code,
                   past_eod_at_start, connect_called, credentials, kws, mgr_vars,
                   flusher_vars, feed_vars, store_vars, eod_vars>>

\* Line 810: shutdown_event.set() before the final processing.
MainAfterConnect ==
    /\ main_pc = "after_connect"
    /\ shutdown_event' = TRUE
    /\ main_pc' = "grace"
    /\ UNCHANGED <<secret_vars, clock_vars, SAVE_TO_S3, buffer_vars, path, exit_code,
                   past_eod_at_start, connect_called, credentials, kws, mgr_vars,
                   flusher_vars, feed_vars, store_vars, eod_vars>>

\* Lines 814-819: time.sleep(5), the grace period, then process_eod_data is
\* called.
MainGrace ==
    /\ main_pc = "grace"
    /\ main_pc' = "in_eod"
    /\ CallEod
    /\ UNCHANGED <<secret_vars, clock_vars, SAVE_TO_S3, shutdown_event, buffer_vars, path,
                   exit_code, past_eod_at_start, connect_called, credentials, kws,
                   mgr_vars, flusher_vars, feed_vars, store_vars, eod_locals>>

MainEodReturnedNoExit ==
    /\ main_pc = "in_eod" /\ eod_pc = "returned"
    /\ IF path = "session"
       THEN main_pc' = "exited" /\ exit_code' = 0
       ELSE main_pc' = "start_threads" /\ UNCHANGED exit_code
    /\ UNCHANGED <<secret_vars, clock_vars, SAVE_TO_S3, shutdown_event, buffer_vars, path,
                   past_eod_at_start, connect_called, credentials, kws, mgr_vars,
                   flusher_vars, feed_vars, store_vars, eod_vars>>

\* Lines 764-765, 778-779, 824: process_eod_data returned; the process exits
\* with status 0 and its daemon threads end with it.
MainEodReturned ==
    /\ main_pc = "in_eod" /\ eod_pc = "returned"
    /\ main_pc' = "exited"
    /\ exit_code' = 0
    /\ UNCHANGED <<secret_vars, clock_vars, SAVE_TO_S3, shutdown_event, buffer_vars, path,
                   past_eod_at_start, connect_called, credentials, kws, mgr_vars,
                   flusher_vars, feed_vars, store_vars, eod_vars>>

\* ------------------------------------------------- market_session_manager
MgrPollIgnoresEvent ==
    /\ mgr_pc = "head" /\ main_pc # "exited"
    /\ mgr_pc' = IF weekday >= 5 THEN "head"
                 ELSE IF is_eod_time THEN "stop"
                 ELSE "head"
    /\ UNCHANGED <<secret_vars, clock_vars, SAVE_TO_S3, shutdown_event, buffer_vars, main_vars,
                   mgr_eod_runs, mgr_stop_calls, flusher_vars, feed_vars, store_vars,
                   eod_vars>>

\* Lines 600-650, one pass of the loop up to the EOD test: the loop ends when
\* the event is set; a weekend sleeps and continues; past the EOD threshold
\* with the event not set the shutdown sequence starts; otherwise the pass
\* ends in its sleep.
MgrPoll ==
    /\ mgr_pc = "head" /\ main_pc # "exited"
    /\ mgr_pc' = IF shutdown_event THEN "done"
                 ELSE IF weekday >= 5 THEN "head"
                 ELSE IF is_eod_time THEN "stop"
                 ELSE "head"
    /\ UNCHANGED <<secret_vars, clock_vars, SAVE_TO_S3, shutdown_event, buffer_vars, main_vars,
                   mgr_eod_runs, mgr_stop_calls, flusher_vars, feed_vars, store_vars,
                   eod_vars>>

\* Lines 634-637: kws.stop() when the WebSocket is connected.
MgrStop ==
    /\ mgr_pc = "stop" /\ main_pc # "exited"
    /\ mgr_pc' = "set"
    /\ mgr_eod_runs' = mgr_eod_runs + 1
    /\ IF kws_connected
       THEN stop_requested' = TRUE /\ mgr_stop_calls' = mgr_stop_calls + 1
       ELSE UNCHANGED <<stop_requested, mgr_stop_calls>>
    /\ UNCHANGED <<secret_vars, clock_vars, SAVE_TO_S3, shutdown_event, buffer_vars, main_vars,
                   flusher_vars, kws_connected, subscribed, feed_pc, pending,
                   tick_calls, noreconnect_called, store_vars, eod_vars>>

MgrSetNoBreak ==
    /\ mgr_pc = "set" /\ main_pc # "exited"
    /\ mgr_pc' = "head"
    /\ UNCHANGED <<secret_vars, clock_vars, SAVE_TO_S3, shutdown_event, buffer_vars, main_vars,
                   mgr_eod_runs, mgr_stop_calls, flusher_vars, feed_vars, store_vars,
                   eod_vars>>

\* Lines 639-640: shutdown_event.set(), then break out of the loop.
MgrSet ==
    /\ mgr_pc = "set" /\ main_pc # "exited"
    /\ shutdown_event' = TRUE
    /\ mgr_pc' = "done"
    /\ UNCHANGED <<secret_vars, clock_vars, SAVE_TO_S3, buffer_vars, main_vars, mgr_eod_runs,
                   mgr_stop_calls, flusher_vars, feed_vars, store_vars, eod_vars>>

\* ------------------------------------------- feed callbacks (main thread)
\* The callbacks run in the reactor, inside kws.connect().
FeedRunning == main_pc = "connect" /\ feed_pc = "idle" /\ ~stop_requested

\* on_connect (lines 123-321): outside market hours nothing is subscribed; an
\* exception while subscribing calls ws.stop().  A ticker that gave up
\* reconnecting connects no more.
FeedConnect ==
    /\ FeedRunning /\ ~kws_connected /\ ~noreconnect_called
    /\ kws_connected' = TRUE
    /\ IF ~is_market_open
       THEN subscribed' = FALSE /\ UNCHANGED stop_requested
       ELSE \E ok \in BOOLEAN :
              /\ subscribed' = ok
              /\ stop_requested' = ~ok
    /\ UNCHANGED <<secret_vars, clock_vars, SAVE_TO_S3, shutdown_event, buffer_vars, main_vars,
                   mgr_vars, flusher_vars, feed_pc, pending, tick_calls,
                   noreconnect_called, store_vars, eod_vars>>

\* on_ticks is entered (line 325): one timestamp for the whole batch.
FeedTicks ==
    /\ FeedRunning /\ kws_connected /\ subscribed
    /\ tick_calls < MaxTickCalls
    /\ \E batch \in {TickBatches[(tick_calls % Len(TickBatches)) + 1]} :
         pending' = [ k \in 1..Len(batch) |->
                        [ts |-> tick_calls + 1, tok |-> batch[k].tok, px |-> batch[k].px] ]
    /\ tick_calls' = tick_calls + 1
    /\ feed_pc' = "on_ticks_lock"
    /\ UNCHANGED <<secret_vars, clock_vars, SAVE_TO_S3, shutdown_event, buffer_vars, main_vars,
                   mgr_vars, flusher_vars, kws_connected, subscribed, stop_requested,
                   noreconnect_called, store_vars, eod_vars>>

\* Line 326: with data_lock.
OnTicksAcquire ==
    /\ feed_pc = "on_ticks_lock"
    /\ LockFree
    /\ data_lock' = "feed"
    /\ feed_pc' = "on_ticks_append"
    /\ UNCHANGED <<secret_vars, clock_vars, SAVE_TO_S3, shutdown_event, in_memory_ticks, appended,
                   drained, main_vars, mgr_vars, flusher_vars, kws_connected,
                   subscribed, stop_requested, pending, tick_calls, noreconnect_called,
                   store_vars, eod_vars>>

\* Lines 327-357: one tick is appended; after the last one the lock is left.
OnTicksAppend ==
    /\ feed_pc = "on_ticks_append"
    /\ in_memory_ticks' = Append(in_memory_ticks, Head(pending))
    /\ appended' = Append(appended, Head(pending))
    /\ pending' = Tail(pending)
    /\ IF Len(pending) = 1
       THEN feed_pc' = "idle" /\ data_lock' = "none"
       ELSE UNCHANGED <<feed_pc, data_lock>>
    /\ UNCHANGED <<secret_vars, clock_vars, SAVE_TO_S3, shutdown_event, drained, main_vars,
                   mgr_vars, flusher_vars, kws_connected, subscribed, stop_requested,
                   tick_calls, noreconnect_called, store_vars, eod_vars>>

\* on_close (lines 361-367): the WebSocket closed; the event is set if it was not.
FeedClose ==
    /\ main_pc = "connect" /\ feed_pc = "idle" /\ kws_connected
    /\ kws_connected' = FALSE
    /\ subscribed' = FALSE
    /\ shutdown_event' = TRUE
    /\ UNCHANGED <<secret_vars, clock_vars, SAVE_TO_S3, buffer_vars, main_vars, mgr_vars,
                   flusher_vars, stop_requested, feed_pc, pending, tick_calls,
                   noreconnect_called, store_vars, eod_vars>>

\* on_noreconnect (lines 377-380): the feed gave up reconnecting and the event
\* is set.  The callback does not call ws.stop(); whether the ticker stops its
\* reactor when it gives up is the ticker's affair, so both are possible.
FeedNoReconnect ==
    /\ FeedRunning /\ ~kws_connected /\ ~noreconnect_called
    /\ shutdown_event' = TRUE
    /\ noreconnect_called' = TRUE
    /\ stop_requested' \in BOOLEAN
    /\ UNCHANGED <<secret_vars, clock_vars, SAVE_TO_S3, buffer_vars, main_vars, mgr_vars,
                   flusher_vars, kws_connected, subscribed, feed_pc, pending,
                   tick_calls, store_vars, eod_vars>>

\* ------------------------------------------------------ save_periodic_data
\* What to_csv followed by read_csv makes of a record: a missing value is
\* written as an empty field and read back as NaN.
CsvRow(r) == [r EXCEPT !.px = IF r.px = None THEN NaN ELSE r.px]

CsvRows(rows) == [ k \in 1..Len(rows) |-> CsvRow(rows[k]) ]

\* A new batch file: kind 0 is ticks_<stamp>.csv, kind 1 is
\* ticks_last_flush_<stamp>.csv.
NewFile(kind, rows) == [kind |-> kind, seq |-> fclock + 1, rows |-> CsvRows(rows)]

FlusherHeadIgnoresEvent ==
    /\ flusher_pc = "head" /\ main_pc # "exited"
    /\ flusher_pc' = "sleep"
    /\ UNCHANGED <<secret_vars, clock_vars, SAVE_TO_S3, shutdown_event, buffer_vars, main_vars,
                   mgr_vars, data_to_save, feed_vars, store_vars, eod_vars>>

\* Line 390: the loop condition, then (line 391) the timer sleep.
FlusherHead ==
    /\ flusher_pc = "head" /\ main_pc # "exited"
    /\ flusher_pc' = IF shutdown_event THEN "done" ELSE "sleep"
    /\ UNCHANGED <<secret_vars, clock_vars, SAVE_TO_S3, shutdown_event, buffer_vars, main_vars,
                   mgr_vars, data_to_save, feed_vars, store_vars, eod_vars>>

FlusherSnapshotOfAnyBuffer ==
    /\ flusher_pc = "sleep" /\ main_pc # "exited"
    /\ LockFree
    /\ data_to_save' = in_memory_ticks
    /\ flusher_pc' = "clear"
    /\ data_lock' = "flusher"
    /\ UNCHANGED <<secret_vars, clock_vars, SAVE_TO_S3, shutdown_event, in_memory_ticks, appended,
                   drained, main_vars, mgr_vars, feed_vars, store_vars, eod_vars>>

\* Lines 391-401: the sleep ends, the lock is taken and the snapshot is made;
\* an empty buffer ends the cycle and leaves the lock.
FlusherSnapshot ==
    /\ flusher_pc = "sleep" /\ main_pc # "exited"
    /\ LockFree
    /\ IF in_memory_ticks # <<>>
       THEN /\ data_to_save' = in_memory_ticks
            /\ flusher_pc' = "clear"
            /\ data_lock' = "flusher"
       ELSE /\ data_to_save' = <<>>
            /\ flusher_pc' = "head"
            /\ data_lock' = "none"
    /\ UNCHANGED <<secret_vars, clock_vars, SAVE_TO_S3, shutdown_event, in_memory_ticks, appended,
                   drained, main_vars, mgr_vars, feed_vars, store_vars, eod_vars>>

FlusherClearKeepsLock ==
    /\ flusher_pc = "clear" /\ main_pc # "exited"
    /\ in_memory_ticks' = <<>>
    /\ drained' = Append(drained, data_to_save)
    /\ flusher_pc' = "write"
    /\ UNCHANGED <<secret_vars, clock_vars, SAVE_TO_S3, shutdown_event, data_lock, appended,
                   main_vars, mgr_vars, data_to_save, feed_vars, store_vars, eod_vars>>

\* Line 397: the buffer is cleared and the lock is left.
FlusherClear ==
    /\ flusher_pc = "clear" /\ main_pc # "exited"
    /\ in_memory_ticks' = <<>>
    /\ drained' = Append(drained, data_to_save)
    /\ data_lock' = "none"
    /\ flusher_pc' = "write"
    /\ UNCHANGED <<secret_vars, clock_vars, SAVE_TO_S3, shutdown_event, appended, main_vars,
                   mgr_vars, data_to_save, feed_vars, store_vars, eod_vars>>

FlusherWritePutsBack ==
    /\ flusher_pc = "write" /\ main_pc # "exited"
    /\ flusher_pc' = "head"
    /\ \/ /\ temp_dir' = temp_dir \cup {NewFile(0, data_to_save)}
          /\ fclock' = fclock + 1
          /\ UNCHANGED <<failures, in_memory_ticks>>
       \/ /\ failures < MaxFailures
          /\ failures' = failures + 1
          /\ in_memory_ticks' = data_to_save \o in_memory_ticks
          /\ UNCHANGED <<temp_dir, fclock>>
    /\ UNCHANGED <<secret_vars, clock_vars, SAVE_TO_S3, shutdown_event, data_lock, appended,
                   drained, main_vars, mgr_vars, data_to_save, feed_vars, eod_vars>>

\* Lines 403-411: the snapshot is written to a new batch file; a failure is
\* logged and the snapshot is dropped.
FlusherWrite ==
    /\ flusher_pc = "write" /\ main_pc # "exited"
    /\ flusher_pc' = "head"
    /\ \/ /\ temp_dir' = temp_dir \cup {NewFile(0, data_to_save)}
          /\ fclock' = fclock + 1
          /\ UNCHANGED failures
       \/ /\ failures < MaxFailures
          /\ failures' = failures + 1
          /\ UNCHANGED <<temp_dir, fclock>>
    /\ UNCHANGED <<secret_vars, clock_vars, SAVE_TO_S3, shutdown_event, buffer_vars, main_vars,
                   mgr_vars, data_to_save, feed_vars, eod_vars>>

\* -------------------------------------------------------- process_eod_data
NameOf(f) == [kind |-> f.kind, seq |-> f.seq]

\* Order of the file names: "ticks_2..." sorts before "ticks_last_flush_...",
\* and the stamps sort chronologically.
NameLess(a, b) == a.kind < b.kind \/ (a.kind = b.kind /\ a.seq < b.seq)

\* temp_files.sort() (line 442).
RECURSIVE SortNames(_)
SortNames(S) ==
    IF S = {} THEN <<>>
    ELSE LET m == CHOOSE x \in S : \A y \in S \ {x} : NameLess(x, y)
         IN  <<m>> \o SortNames(S \ {m})

\* pd.read_csv of an existing batch file (line 476).
FileRows(name) == (CHOOSE f \in temp_dir : NameOf(f) = name).rows

RowLess(a, b) == a.ts < b.ts \/ (a.ts = b.ts /\ a.tok < b.tok)

\* sort_values(by=['timestamp', 'instrument_token']) (line 506): rows are
\* inserted in key order, equal keys keeping their order.
RECURSIVE Insert(_, _)
Insert(r, s) ==
    IF s = <<>> THEN <<r>>
    ELSE IF RowLess(r, Head(s)) THEN <<r>> \o s
    ELSE <<Head(s)>> \o Insert(r, Tail(s))

RECURSIVE SortRows(_)
SortRows(s) ==
    IF s = <<>> THEN <<>>
    ELSE Insert(s[Len(s)], SortRows(SubSeq(s, 1, Len(s) - 1)))

\* drop_duplicates (line 510): the first of equal rows is kept.
RECURSIVE drop_duplicates(_)
drop_duplicates(s) ==
    IF s = <<>> THEN <<>>
    ELSE LET front == drop_duplicates(SubSeq(s, 1, Len(s) - 1))
             last == s[Len(s)]
         IN  IF last \in Range(front) THEN front ELSE Append(front, last)

\* pd.to_numeric(..., errors='coerce').fillna(0) (lines 516-519).
Normalize(r) == [r EXCEPT !.px = IF r.px = NaN THEN "0" ELSE r.px]

\* Lines 492-526 on the frames of one chunk.
CleanChunk(frames) ==
    LET deduped == drop_duplicates(SortRows(Flatten(frames)))
    IN  [ k \in 1..Len(deduped) |-> Normalize(deduped[k]) ]

\* No object in the bucket under the FinalArtifact's key.
NoObject == [exists |-> FALSE, rows |-> <<>>]

NoFile == [exists |-> FALSE, chunks |-> <<>>, sealed |-> FALSE]

AfterChunkOverlapping(outcome) ==
    /\ chunk_log' = Append(chunk_log, [src |-> chunk_src, outcome |-> outcome])
    /\ chunk_i' = chunk_i + CHUNK_SIZE - 1
    /\ file_j' = chunk_i + CHUNK_SIZE
    /\ chunk_data' = <<>>
    /\ chunk_src' = {}
    /\ eod_pc' = IF chunk_i + CHUNK_SIZE - 1 < Len(temp_files) THEN "load" ELSE "close"

\* The end of one chunk's pass, logged as "written" (line 542), "failed" (line
\* 548) or "no_data" (line 489): the next chunk, or the end of the loop.
AfterChunk(outcome) ==
    /\ chunk_log' = Append(chunk_log, [src |-> chunk_src, outcome |-> outcome])
    /\ chunk_i' = chunk_i + CHUNK_SIZE
    /\ file_j' = chunk_i + CHUNK_SIZE + 1
    /\ chunk_data' = <<>>
    /\ chunk_src' = {}
    /\ eod_pc' = IF chunk_i + CHUNK_SIZE < Len(temp_files) THEN "load" ELSE "close"

AbortOnFailedChunk ==
    /\ chunk_log' = Append(chunk_log, [src |-> chunk_src, outcome |-> "failed"])
    /\ chunk_data' = <<>>
    /\ chunk_src' = {}
    /\ eod_pc' = "close"
    /\ UNCHANGED <<chunk_i, file_j>>

\* The chunk's except clause ends in "continue" (lines 547-549).
SkipChunk == AfterChunk("failed")

\* The call ends: by return, or in the outer except (lines 566-574), which
\* removes the file at eod_filename.
Return(result) ==
    /\ eod_pc' = "returned"
    /\ eod_results' = Append(eod_results, result)

\* Lines 421-423: the call begins and takes the lock.
EodAcquire ==
    /\ eod_pc = "acquire"
    /\ LockFree
    /\ data_lock' = "main"
    /\ eod_pc' = "locked"
    /\ remaining_ticks' = <<>>
    /\ temp_files' = <<>>
    /\ listed' = FALSE
    /\ chunk_i' = 0
    /\ file_j' = 1
    /\ chunk_data' = <<>>
    /\ chunk_src' = {}
    /\ consumed' = {}
    /\ chunk_log' = <<>>
    /\ writer' = "none"
    /\ total_rows_processed' = 0
    /\ schema' = 0
    /\ UNCHANGED <<secret_vars, clock_vars, SAVE_TO_S3, shutdown_event, in_memory_ticks, appended,
                   drained, main_vars, mgr_vars, flusher_vars, feed_vars, store_vars,
                   eod_calls, eod_results, artifact, s3_object>>

\* Lines 424-427: the final drain.
EodDrain ==
    /\ eod_pc = "locked"
    /\ data_lock' = "none"
    /\ IF in_memory_ticks # <<>>
       THEN /\ remaining_ticks' = in_memory_ticks
            /\ in_memory_ticks' = <<>>
            /\ drained' = Append(drained, in_memory_ticks)
            /\ eod_pc' = "save_remaining"
       ELSE /\ eod_pc' = "list"
            /\ UNCHANGED <<remaining_ticks, in_memory_ticks, drained>>
    /\ UNCHANGED <<secret_vars, clock_vars, SAVE_TO_S3, shutdown_event, appended, main_vars,
                   mgr_vars, flusher_vars, feed_vars, store_vars, eod_calls,
                   eod_results, temp_files, listed, chunk_i, file_j, chunk_data,
                   chunk_src, consumed, chunk_log, writer, total_rows_processed, schema,
                   artifact, s3_object>>

\* Lines 429-438: the last snapshot is written to ticks_last_flush_<stamp>.csv.
EodSaveRemaining ==
    /\ eod_pc = "save_remaining"
    /\ eod_pc' = "list"
    /\ \/ /\ temp_dir' = temp_dir \cup {NewFile(1, remaining_ticks)}
          /\ fclock' = fclock + 1
          /\ UNCHANGED failures
       \/ /\ failures < MaxFailures
          /\ failures' = failures + 1
          /\ UNCHANGED <<temp_dir, fclock>>
    /\ UNCHANGED <<secret_vars, clock_vars, SAVE_TO_S3, shutdown_event, buffer_vars, main_vars,
                   mgr_vars, flusher_vars, feed_vars, eod_calls, eod_results,
                   remaining_ticks, temp_files, listed, chunk_i, file_j, chunk_data,
                   chunk_src, consumed, chunk_log, writer, total_rows_processed, schema,
                   artifact, s3_object>>

\* Lines 441-461: the directory is listed and sorted; an empty listing returns.
EodList ==
    /\ eod_pc = "list"
    /\ temp_files' = SortNames({ NameOf(f) : f \in temp_dir })
    /\ listed' = TRUE
    /\ IF temp_dir = {}
       THEN Return("no_files")
       ELSE eod_pc' = "load" /\ UNCHANGED eod_results
    /\ UNCHANGED <<secret_vars, clock_vars, SAVE_TO_S3, shutdown_event, buffer_vars, main_vars,
                   mgr_vars, flusher_vars, feed_vars, store_vars, eod_calls,
                   remaining_ticks, chunk_i, file_j, chunk_data, chunk_src, consumed,
                   chunk_log, writer, total_rows_processed, schema, artifact, s3_object>>

\* Lines 473-486: the next file of the chunk is read, or is unreadable and
\* skipped; after the chunk's last file an empty chunk is skipped.
EodReadFile ==
    /\ eod_pc = "load"
    /\ LET name == temp_files[file_j]
           last == file_j = Min(chunk_i + CHUNK_SIZE, Len(temp_files))
       IN  \/ /\ chunk_data' = Append(chunk_data, FileRows(name))
              /\ chunk_src' = chunk_src \cup {name}
              /\ consumed' = consumed \cup {name}
              /\ file_j' = file_j + 1
              /\ eod_pc' = IF last THEN "process" ELSE "load"
              /\ UNCHANGED <<chunk_i, chunk_log, failures>>
           \/ /\ failures < MaxFailures
              /\ failures' = failures + 1
              /\ UNCHANGED consumed
              /\ IF last /\ chunk_data = <<>>
                 THEN AfterChunk("no_data")
                 ELSE /\ file_j' = file_j + 1
                      /\ eod_pc' = IF last THEN "process" ELSE "load"
                      /\ UNCHANGED <<chunk_i, chunk_data, chunk_src, chunk_log>>
    /\ UNCHANGED <<secret_vars, clock_vars, SAVE_TO_S3, shutdown_event, buffer_vars, main_vars,
                   mgr_vars, flusher_vars, feed_vars, temp_dir, fclock, eod_calls,
                   eod_results, remaining_ticks, temp_files, listed, writer,
                   total_rows_processed, schema, artifact, s3_object>>

\* chunk_num (line 464): the number of the chunk being processed.
chunk_num == chunk_i \div CHUNK_SIZE + 1

\* The rows of the file at eod_filename, chunk after chunk.
ArtifactRows == Flatten([ k \in 1..Len(artifact.chunks) |-> artifact.chunks[k].rows ])

OpenedFile == [exists |-> TRUE, chunks |-> <<>>, sealed |-> FALSE]

EodProcessChunkReopens ==
    /\ eod_pc = "process"
    /\ LET cleaned == CleanChunk(chunk_data)
           entry == [rows |-> cleaned, src |-> chunk_src]
           opened == OpenedFile
           table_schema == chunk_num
       IN  \/ \* the chunk is written
              /\ total_rows_processed' = total_rows_processed + Len(cleaned)
              /\ schema' = table_schema
              /\ writer' = "open"
              /\ artifact' = [opened EXCEPT !.chunks = Append(@, entry)]
              /\ UNCHANGED failures
              /\ AfterChunk("written")
           \/ \* concatenating or cleaning raises (before line 529)
              /\ failures < MaxFailures
              /\ failures' = failures + 1
              /\ UNCHANGED <<total_rows_processed, schema, writer, artifact>>
              /\ SkipChunk
           \/ \* pq.ParquetWriter raises (line 537), with or without a file left
              /\ failures < MaxFailures /\ writer = "none"
              /\ failures' = failures + 1
              /\ total_rows_processed' = total_rows_processed + Len(cleaned)
              /\ schema' = chunk_num
              /\ artifact' \in {artifact, OpenedFile}
              /\ UNCHANGED writer
              /\ SkipChunk
           \/ \* write_table raises (line 541)
              /\ failures < MaxFailures
              /\ failures' = failures + 1
              /\ total_rows_processed' = total_rows_processed + Len(cleaned)
              /\ schema' = table_schema
              /\ writer' = "open"
              /\ artifact' = opened
              /\ SkipChunk
    /\ UNCHANGED <<secret_vars, clock_vars, SAVE_TO_S3, shutdown_event, buffer_vars, main_vars,
                   mgr_vars, flusher_vars, feed_vars, temp_dir, fclock, eod_calls,
                   eod_results, remaining_ticks, temp_files, listed, consumed,
                   s3_object>>

\* Lines 489-549 on the frames read for the chunk: clean, count, open the
\* writer on the first chunk that gets this far, write.  An exception at any
\* step is logged and the chunk is skipped.
EodProcessChunk ==
    /\ eod_pc = "process"
    /\ LET cleaned == CleanChunk(chunk_data)
           entry == [rows |-> cleaned, src |-> chunk_src]
           opened == IF writer = "none" THEN OpenedFile ELSE artifact
           table_schema == IF writer = "none" THEN chunk_num ELSE schema
       IN  \/ \* the chunk is written
              /\ total_rows_processed' = total_rows_processed + Len(cleaned)
              /\ schema' = table_schema
              /\ writer' = "open"
              /\ artifact' = [opened EXCEPT !.chunks = Append(@, entry)]
              /\ UNCHANGED failures
              /\ AfterChunk("written")
           \/ \* concatenating or cleaning raises (before line 529)
              /\ failures < MaxFailures
              /\ failures' = failures + 1
              /\ UNCHANGED <<total_rows_processed, schema, writer, artifact>>
              /\ SkipChunk
           \/ \* pq.ParquetWriter raises (line 537), with or without a file left
              /\ failures < MaxFailures /\ writer = "none"
              /\ failures' = failures + 1
              /\ total_rows_processed' = total_rows_processed + Len(cleaned)
              /\ schema' = chunk_num
              /\ artifact' \in {artifact, OpenedFile}
              /\ UNCHANGED writer
              /\ SkipChunk
           \/ \* write_table raises (line 541)
              /\ failures < MaxFailures
              /\ failures' = failures + 1
              /\ total_rows_processed' = total_rows_processed + Len(cleaned)
              /\ schema' = table_schema
              /\ writer' = "open"
              /\ artifact' = opened
              /\ SkipChunk
    /\ UNCHANGED <<secret_vars, clock_vars, SAVE_TO_S3, shutdown_event, buffer_vars, main_vars,
                   mgr_vars, flusher_vars, feed_vars, temp_dir, fclock, eod_calls,
                   eod_results, remaining_ticks, temp_files, listed, consumed,
                   s3_object>>

\* Lines 551-564: the writer, if one was opened, is closed; without a writer
\* the call reports that nothing was processed.
EodClose ==
    /\ eod_pc = "close"
    /\ IF writer = "none"
       THEN /\ Return("no_data")
            /\ UNCHANGED <<writer, artifact, failures>>
       ELSE \/ /\ writer' = "closed"
               /\ artifact' = [artifact EXCEPT !.sealed = TRUE]
               /\ IF SAVE_TO_S3
                  THEN eod_pc' = "upload" /\ UNCHANGED eod_results
                  ELSE Return("sealed")
               /\ UNCHANGED failures
            \/ \* writer.close() raises: the outer except removes the file
               /\ failures < MaxFailures
               /\ failures' = failures + 1
               /\ artifact' = NoFile
               /\ Return("failed")
               /\ UNCHANGED writer
    /\ UNCHANGED <<secret_vars, clock_vars, SAVE_TO_S3, shutdown_event, buffer_vars, main_vars,
                   mgr_vars, flusher_vars, feed_vars, temp_dir, fclock, eod_calls,
                   remaining_ticks, temp_files, listed, chunk_i, file_j, chunk_data,
                   chunk_src, consumed, chunk_log, total_rows_processed, schema, s3_object>>

\* upload_to_s3 (lines 575-589) called from line 559: the upload succeeds (the
\* local file stays), or upload_file raises and is logged, or boto3.client
\* raises before the try and the outer except of process_eod_data removes the
\* local file.
EodUpload ==
    /\ eod_pc = "upload"
    /\ \/ /\ s3_object' = [exists |-> TRUE, rows |-> ArtifactRows]
          /\ Return("sealed")
          /\ UNCHANGED <<artifact, failures>>
       \/ /\ failures < MaxFailures
          /\ failures' = failures + 1
          /\ Return("sealed")
          /\ UNCHANGED <<artifact, s3_object>>
       \/ /\ failures < MaxFailures
          /\ failures' = failures + 1
          /\ artifact' = NoFile
          /\ Return("failed")
          /\ UNCHANGED s3_object
    /\ UNCHANGED <<secret_vars, clock_vars, SAVE_TO_S3, shutdown_event, buffer_vars, main_vars,
                   mgr_vars, flusher_vars, feed_vars, temp_dir, fclock, eod_calls,
                   remaining_ticks, temp_files, listed, chunk_i, file_j, chunk_data,
                   chunk_src, consumed, chunk_log, writer, total_rows_processed, schema>>

\* process_eod_data is called on its own: once, and once more after it returned.
EodRun ==
    /\ main_pc = "harness"
    /\ eod_pc = "idle" \/ (eod_pc = "returned" /\ eod_calls = 1)
    /\ CallEod
    /\ UNCHANGED <<secret_vars, clock_vars, SAVE_TO_S3, shutdown_event, buffer_vars, main_vars,
                   mgr_vars, flusher_vars, feed_vars, store_vars, eod_locals>>

EodSteps ==
    \/ EodAcquire \/ EodDrain \/ EodSaveRemaining \/ EodList
    \/ EodReadFile \/ EodProcessChunk \/ EodClose \/ EodUpload

\* ------------------------------------------------------- the program run
\* The state of the module's globals once the module is loaded (lines 54-63),
\* at any time of any day, TEMP_DATA_DIR holding no file.
InitCommon ==
    /\ elapsed = 0
    /\ shutdown_event = FALSE
    /\ data_lock = "none"
    /\ path = "none"
    /\ exit_code = -1
    /\ past_eod_at_start = FALSE
    /\ connect_called = FALSE
    /\ credentials = "unfetched"
    /\ kws = None
    /\ mgr_pc = "idle" /\ mgr_eod_runs = 0 /\ mgr_stop_calls = 0
    /\ flusher_pc = "idle" /\ data_to_save = <<>>
    /\ kws_connected = FALSE /\ subscribed = FALSE /\ stop_requested = FALSE
    /\ feed_pc = "idle" /\ pending = <<>> /\ tick_calls = 0
    /\ noreconnect_called = FALSE
    /\ failures = 0
    /\ appended = in_memory_ticks /\ drained = <<>>
    /\ eod_pc = "idle" /\ eod_calls = 0 /\ eod_results = <<>>
    /\ remaining_ticks = <<>> /\ temp_files = <<>> /\ listed = FALSE
    /\ chunk_i = 0 /\ file_j = 1 /\ chunk_data = <<>> /\ chunk_src = {}
    /\ consumed = {} /\ chunk_log = <<>> /\ writer = "none"
    /\ total_rows_processed = 0
    /\ schema = 0
    /\ artifact = NoFile
    /\ s3_object = NoObject

\* ------------------------------------ local_host.py: the stored secret
\* The fields a stored secret may hold: the three the updater writes, and one
\* of another kind.
TokenFields == {"API_KEY", "API_SECRET", "ACCESS_TOKEN"}

SecretFields == TokenFields \cup {"USER_ID"}

\* The empty dict.
EmptyDict == [f \in {} |-> "old"]

\* No secret under SECRETS_MANAGER_SECRET_NAME.
NoSecret == [kind |-> "absent", data |-> EmptyDict]

\* The secret as the updater may find it: absent, a binary secret (no
\* SecretString), or a JSON string holding any of the fields.
StoredSecrets ==
    {NoSecret, [kind |-> "binary", data |-> EmptyDict]}
    \cup { [kind |-> "string", data |-> [f \in D |-> "old"]] : D \in SUBSET SecretFields }

\* The state of local_host.py's globals while the updater is not run.
TokenNotRun ==
    /\ LOCAL_API_KEY = None /\ LOCAL_API_SECRET = None
    /\ stored_secret = NoSecret
    /\ token_pc = "idle"
    /\ access_token = None
    /\ fetch_outcome = None
    /\ existing_secret_data = EmptyDict
    /\ token_result = None

\* Lines 56-60: the function is entered; with the local key or secret unset it
\* logs and returns.
TokenCall ==
    /\ token_pc = "start"
    /\ IF LOCAL_API_KEY = None \/ LOCAL_API_SECRET = None
       THEN token_pc' = "returned" /\ token_result' = "unset"
       ELSE token_pc' = "session" /\ UNCHANGED token_result
    /\ UNCHANGED <<collector_vars, LOCAL_API_KEY, LOCAL_API_SECRET, stored_secret,
                   access_token, fetch_outcome, existing_secret_data>>

\* Lines 62-69: kite.generate_session gives the access token, or raises (lines
\* 84-86).
TokenSession ==
    /\ token_pc = "session"
    /\ \/ /\ access_token' = "new_token"
          /\ token_pc' = "fetch"
          /\ UNCHANGED token_result
       \/ /\ token_pc' = "returned"
          /\ token_result' = "session_failed"
          /\ UNCHANGED access_token
    /\ UNCHANGED <<collector_vars, LOCAL_API_KEY, LOCAL_API_SECRET, stored_secret,
                   fetch_outcome, existing_secret_data>>

\* get_current_secret_data (lines 26-40), called at line 72: the secret's
\* dict, or {} when the secret is not a string, is not found, or the fetch
\* fails in any other way.
TokenFetch ==
    /\ token_pc = "fetch"
    /\ \/ /\ stored_secret.kind = "string"
          /\ fetch_outcome' = "ok"
          /\ existing_secret_data' = stored_secret.data
       \/ /\ stored_secret.kind = "binary"
          /\ fetch_outcome' = "not_string"
          /\ existing_secret_data' = EmptyDict
       \/ /\ stored_secret.kind = "absent"
          /\ fetch_outcome' = "not_found"
          /\ existing_secret_data' = EmptyDict
       \/ /\ fetch_outcome' = "error"
          /\ existing_secret_data' = EmptyDict
    /\ token_pc' = "put"
    /\ UNCHANGED <<collector_vars, LOCAL_API_KEY, LOCAL_API_SECRET, stored_secret,
                   access_token, token_result>>

\* Lines 75-77: the three fields are set in the fetched dict.
UpdatedData ==
    [ f \in (DOMAIN existing_secret_data) \cup TokenFields |->
        IF f = "API_KEY" THEN LOCAL_API_KEY
        ELSE IF f = "API_SECRET" THEN LOCAL_API_SECRET
        ELSE IF f = "ACCESS_TOKEN" THEN access_token
        ELSE existing_secret_data[f] ]

\* Lines 75-82 with update_secret (lines 42-52): the dict is stored as the
\* secret's new value, or put_secret_value raises and the secret stays.
TokenPut ==
    /\ token_pc = "put"
    /\ \/ /\ stored_secret' = [kind |-> "string", data |-> UpdatedData]
          /\ token_result' = "updated"
       \/ /\ token_result' = "put_failed"
          /\ UNCHANGED stored_secret
    /\ token_pc' = "returned"
    /\ UNCHANGED <<collector_vars, LOCAL_API_KEY, LOCAL_API_SECRET, access_token,
                   fetch_outcome, existing_secret_data>>

\* generate_access_token_and_update_secret(request_token) is called (line
\* 107), the environment and the stored secret being any.
InitToken ==
    /\ weekday = 0
    /\ phase = 1
    /\ main_pc = "harness"
    /\ SAVE_TO_S3 = TRUE
    /\ in_memory_ticks = <<>>
    /\ temp_dir = {}
    /\ fclock = 0
    /\ InitCommon
    /\ LOCAL_API_KEY \in {None, "local_key"}
    /\ LOCAL_API_SECRET \in {None, "local_secret"}
    /\ stored_secret \in StoredSecrets
    /\ token_pc = "start"
    /\ access_token = None
    /\ fetch_outcome = None
    /\ existing_secret_data = EmptyDict
    /\ token_result = None

NextToken == TokenCall \/ TokenSession \/ TokenFetch \/ TokenPut

SpecToken == InitToken /\ [][NextToken]_vars

\* The days a run starts on: a Friday or a Sunday.
StartDays == {4, 6}

Init ==
    /\ weekday \in StartDays
    /\ phase \in 1..Len(Phases)
    /\ main_pc = "startup"
    /\ SAVE_TO_S3 = TRUE
    /\ in_memory_ticks = <<>>
    /\ temp_dir = {}
    /\ fclock = 0
    /\ InitCommon
    /\ TokenNotRun

Next ==
    \/ TimePasses
    \/ MainStartup \/ MainCheckEod \/ MainWait \/ MainWaitSleep \/ MainRecheck
    \/ MainStartThreads \/ MainConnect \/ ConnectReturns \/ ConnectRaises
    \/ MainAfterConnect \/ MainGrace \/ MainEodReturned
    \/ MgrPoll \/ MgrStop \/ MgrSet
    \/ FeedConnect \/ FeedTicks \/ OnTicksAcquire \/ OnTicksAppend
    \/ FeedClose \/ FeedNoReconnect
    \/ FlusherHead \/ FlusherSnapshot \/ FlusherClear \/ FlusherWrite
    \/ EodSteps

Spec == Init /\ [][Next]_vars

\* The steps the program takes by itself.  Each thread that can take a step
\* eventually takes one; kws.connect() returns once the reactor is stopped.
\* What the outside does carries no such promise: the passing of time, what
\* the feed delivers, an interrupt out of kws.connect(), an I/O failure.
MainSteps ==
    \/ MainStartup \/ MainCheckEod \/ MainWait \/ MainWaitSleep \/ MainRecheck
    \/ MainStartThreads \/ MainConnect \/ ConnectReturns \/ MainAfterConnect
    \/ MainGrace \/ MainEodReturned

MgrSteps == MgrPoll \/ MgrStop \/ MgrSet

FlusherSteps == FlusherHead \/ FlusherSnapshot \/ FlusherClear \/ FlusherWrite

Fairness ==
    /\ WF_vars(MainSteps)
    /\ WF_vars(MgrSteps)
    /\ WF_vars(FlusherSteps)
    /\ WF_vars(OnTicksAcquire \/ OnTicksAppend)
    /\ WF_vars(EodSteps)

SpecLive == Spec /\ Fairness

\* ------------------------------------- process_eod_data on a given directory
\* The row that two of the batch files share.
SharedRow == [ts |-> 0, tok |-> 1, px |-> "100.5"]

\* n batch files left by the flusher, each with a row of its own; the files
\* whose index is in dup also hold SharedRow.
BatchFiles(n, dup) ==
    { [kind |-> 0, seq |-> k,
       rows |-> (IF k \in dup THEN <<SharedRow>> ELSE <<>>)
                \o << [ts |-> k, tok |-> 1, px |-> "100.5"] >>] : k \in 1..n }

\* One batch file holding three ticks of one on_ticks call for the same
\* instrument: the first without a last_price (read back as NaN), the second
\* with last_price 0, the third with a last_price of its own.
CoercedTwins ==
    { [kind |-> 0, seq |-> 1,
       rows |-> << [ts |-> 0, tok |-> 1, px |-> NaN],
                   [ts |-> 0, tok |-> 1, px |-> "0"],
                   [ts |-> 0, tok |-> 1, px |-> "100.5"] >>] }

\* The directories process_eod_data is run on: up to two files, or more than
\* a chunk of them; SharedRow is in no file, in the first two files of the
\* sorted list, in the last file of the first chunk and the first of the
\* second, or in the first and the last file; or the one file of CoercedTwins.
Directories ==
    { BatchFiles(n, dup) :
        n \in (0..2) \cup {MaxFiles},
        dup \in { {}, {1, 2}, {CHUNK_SIZE, CHUNK_SIZE + 1}, {1, MaxFiles} } }
    \cup {CoercedTwins}

InitEod ==
    /\ weekday = 0
    /\ phase = Len(Phases)
    /\ main_pc = "harness"
    /\ SAVE_TO_S3 \in BOOLEAN
    /\ in_memory_ticks \in { <<>>, << [ts |-> MaxFiles + 1, tok |-> 2, px |-> None] >> }
    /\ temp_dir \in Directories
    /\ fclock = Cardinality(temp_dir)
    /\ InitCommon
    /\ TokenNotRun

NextEod == EodRun \/ EodSteps

SpecEod == InitEod /\ [][NextEod]_vars

\* ------------------------------- wait_for_market_open with the event set
\* shutdown_event.set() by a thread other than the waiting one, while
\* wait_for_market_open runs (the event it tests at lines 667 and 696).
EventSet ==
    /\ main_pc \in {"wait", "wait_sleep"}
    /\ ~shutdown_event
    /\ shutdown_event' = TRUE
    /\ UNCHANGED <<secret_vars, clock_vars, SAVE_TO_S3, buffer_vars, main_vars, mgr_vars,
                   flusher_vars, feed_vars, store_vars, eod_vars>>

\* wait_for_market_open() is entered (line 651) at any time of any day.
InitWait ==
    /\ weekday \in 0..6
    /\ phase \in 1..Len(Phases)
    /\ main_pc = "wait"
    /\ SAVE_TO_S3 = TRUE
    /\ in_memory_ticks = <<>>
    /\ temp_dir = {}
    /\ fclock = 0
    /\ InitCommon
    /\ TokenNotRun

NextWait == TimePasses \/ MainWait \/ MainWaitSleep \/ EventSet

SpecWait == InitWait /\ [][NextWait]_vars

\* ================================================================ claims
\* The row of the FinalArtifact that a buffered record becomes.
ArtifactRowOf(r) == Normalize(CsvRow(r))

Drained == Flatten(drained)

\* C1: for every interleaving of on_ticks appends with the flusher's drains
\* and the final drain, each appended record is in exactly one drained
\* snapshot or still in in_memory_ticks: as multisets, appended = buffer +
\* all drained snapshots.
C1_NoLossNoDuplication ==
    \A r \in Range(appended) \cup Range(in_memory_ticks) \cup Range(Drained) :
        Count(appended, r) = Count(in_memory_ticks, r) + Count(Drained, r)

\* A periodic drain and a non-empty final drain have both happened, with
\* appends of several on_ticks calls between them.
C1_Witness ==
    /\ Len(drained) >= 2
    /\ remaining_ticks # <<>>
    /\ tick_calls >= 2
    /\ flusher_pc = "done"

\* C2: a run that passed startup and ended has called process_eod_data exactly
\* once, and no run calls it twice.
C2_EodExactlyOnce ==
    /\ eod_calls <= 1
    /\ (main_pc = "exited" /\ exit_code = 0) => eod_calls = 1

\* A session ran (kws.connect() was left) and the run ended after its one
\* consolidation.
C2_Witness ==
    /\ main_pc = "exited" /\ exit_code = 0
    /\ path = "session"
    /\ eod_calls = 1

\* C3: when is_eod_time() holds at the first check after startup, the run
\* calls process_eod_data once, starts neither daemon thread and never calls
\* kws.connect().
C3_PastEodNoSession ==
    past_eod_at_start =>
        /\ main_pc \in {"in_eod", "exited"}
        /\ eod_calls = 1
        /\ mgr_pc = "idle" /\ flusher_pc = "idle"
        /\ ~connect_called /\ ~kws_connected

\* The run that started past EOD has consolidated and ended.
C3_Witness ==
    /\ past_eod_at_start
    /\ main_pc = "exited" /\ exit_code = 0
    /\ eod_results # <<>>

\* C4: the session manager runs its EOD shutdown sequence at most once, and
\* calls kws.stop() at most once, whoever else sets shutdown_event meanwhile.
C4_EodSequenceOnce ==
    /\ mgr_eod_runs <= 1
    /\ mgr_stop_calls <= 1

\* The manager has called kws.stop() and is about to set the event, which
\* another task has set in the meantime.
C4_Witness ==
    /\ mgr_pc = "set"
    /\ mgr_stop_calls = 1
    /\ shutdown_event

\* C5: once shutdown_event is set, no step of any task clears it.
C5_EventOneShot == [][shutdown_event => shutdown_event']_vars

\* The event was set while the feed was running (not by the main thread) and
\* the run went on to its end with it.
C5_Witness ==
    /\ shutdown_event
    /\ main_pc = "exited"
    /\ mgr_pc = "done"
    /\ flusher_pc = "done"

\* C6 (as claimed): once process_eod_data has listed TEMP_DATA_DIR, the
\* directory gets no further batch file: every file in it is in the listing.
C6_NoWriteAfterListing ==
    listed => \A f \in temp_dir : NameOf(f) \in Range(temp_files)

\* C7 (as claimed): a session that ends with no I/O failure has every tick
\* delivered to on_ticks as exactly one row of the FinalArtifact, which has no
\* other row.
C7_EveryTickOneRow ==
    (main_pc = "exited" /\ path = "session" /\ failures = 0) =>
        /\ Len(ArtifactRows) = Len(appended)
        /\ \A r \in Range(appended) : Count(ArtifactRows, ArtifactRowOf(r)) = 1

\* C8 (as claimed): after a first successful process_eod_data call, a second
\* call with an empty buffer and no new batch file, and no I/O failure, finds
\* nothing to process and writes no FinalArtifact.
C8_SecondRunProducesNothing ==
    (eod_calls = 2 /\ Len(eod_results) = 2 /\ eod_results[1] = "sealed"
        /\ failures = 0) =>
        eod_results[2] = "no_files"

\* C9 (as claimed): when process_eod_data has sealed the FinalArtifact and
\* returned with no I/O failure, no batch file it read is left in
\* TEMP_DATA_DIR.
C9_ConsumedFilesDeleted ==
    (eod_pc = "returned" /\ eod_results # <<>> /\ failures = 0
        /\ eod_results[Len(eod_results)] = "sealed") =>
        \A f \in temp_dir : NameOf(f) \notin consumed

\* Row r is a row of batch file f.
Holds(f, r) == \E i \in 1..Len(f.rows) : f.rows[i] = r

\* Two different batch files of the directory both hold row r.
InTwoFiles(r) == Cardinality({ f \in temp_dir : Holds(f, r) }) >= 2

AllFileRows == UNION { Range(f.rows) : f \in temp_dir }

\* C10 (as claimed): a row held by two batch files, wherever they fall in the
\* sorted list (one chunk or two), is exactly once in the FinalArtifact of a
\* call that met no failure.
C10_OneCopyAnywhere ==
    (eod_calls = 1 /\ eod_results = <<"sealed">> /\ failures = 0) =>
        \A r \in AllFileRows :
            InTwoFiles(r) => Count(ArtifactRows, Normalize(r)) = 1

\* The chunks of CHUNK_SIZE names that a listing of n names is cut into.
NumChunks(n) == (n + CHUNK_SIZE - 1) \div CHUNK_SIZE

\* The names of chunk k of the listing.
ChunkNames(k) ==
    { temp_files[j] : j \in ((k - 1) * CHUNK_SIZE + 1)..Min(k * CHUNK_SIZE, Len(temp_files)) }

\* What a chunk written from the files src must hold: their frames, in the
\* order of the listing, concatenated and cleaned.
ExpectedRows(src) ==
    LET Read(n) == n \in src
        names == SelectSeq(temp_files, Read)
    IN  CleanChunk([ j \in 1..Len(names) |-> FileRows(names[j]) ])

IsWritten(e) == e.outcome = "written"

WrittenLog == SelectSeq(chunk_log, IsWritten)

\* The call is under way past the listing, or has returned with the writer
\* closed normally.
EodNotAborted ==
    \/ eod_pc \in {"load", "process", "close", "upload"}
    \/ eod_pc = "returned" /\ eod_results # <<>>
          /\ eod_results[Len(eod_results)] = "sealed"

\* C11: a chunk that fails (unreadable files, or an exception while it is
\* concatenated, cleaned or written) is skipped and the loop goes on: every
\* chunk of the listing is passed before the writer is closed, and the
\* FinalArtifact holds, chunk by chunk, the cleaned rows of the readable files
\* of every chunk that did not fail.
C11_ChunkIsolation ==
    EodNotAborted =>
        /\ eod_pc \in {"close", "upload", "returned"} =>
               Len(chunk_log) = NumChunks(Len(temp_files))
        /\ \A k \in 1..Len(chunk_log) :
               chunk_log[k].src = ChunkNames(k) \cap consumed
        /\ writer = "none" => WrittenLog = <<>>
        /\ writer # "none" =>
               /\ artifact.exists
               /\ Len(artifact.chunks) = Len(WrittenLog)
               /\ \A k \in 1..Len(WrittenLog) :
                      /\ artifact.chunks[k].src = WrittenLog[k].src
                      /\ artifact.chunks[k].rows = ExpectedRows(WrittenLog[k].src)

\* Of two chunks the first failed and the second was written: the sealed
\* FinalArtifact holds the second chunk.
C11_Witness ==
    /\ eod_pc = "returned" /\ artifact.sealed
    /\ Len(chunk_log) = 2
    /\ chunk_log[1].outcome = "failed"
    /\ chunk_log[2].outcome = "written"
    /\ ArtifactRows # <<>>

\* C12 (as claimed): when the first process_eod_data call has written no row
\* (nothing listed, nothing readable, or every chunk failing, the writer
\* opened or not), the call hands nothing to upload_to_s3 and leaves no file
\* at eod_filename.
C12_NoRowsNoArtifact ==
    (eod_calls = 1 /\ eod_pc \in {"upload", "returned"} /\ WrittenLog = <<>>) =>
        /\ eod_pc # "upload"
        /\ ~artifact.exists
        /\ ~s3_object.exists

\* C13 (as claimed): when the first process_eod_data call ends in total
\* failure (it returns without having opened the writer, or through the outer
\* except), no file is left at eod_filename and nothing was uploaded.
C13_TotalFailureLeavesNoFile ==
    (eod_calls = 1 /\ eod_pc = "returned" /\ eod_results # <<>>
        /\ (writer = "none" \/ eod_results[1] = "failed")) =>
        /\ ~artifact.exists
        /\ ~s3_object.exists

\* C14 (as claimed): the local file at eod_filename is gone once upload_to_s3
\* has uploaded it, and is kept when the upload failed or SAVE_TO_S3 is off.
C14_LocalCopyRemovedAfterUpload ==
    (eod_calls = 1 /\ eod_pc = "returned" /\ eod_results = <<"sealed">>) =>
        (artifact.exists <=> ~s3_object.exists)

\* C15 (as claimed): while the market is open and shutdown_event is not set,
\* on_close (the step inside kws.connect() in which the WebSocket goes from
\* connected to closed) leaves shutdown_event unset, so that the flusher and
\* the manager keep running.
C15_CloseIsNoTransition ==
    [][ ( /\ main_pc = "connect" /\ main_pc' = "connect"
          /\ kws_connected /\ ~kws_connected'
          /\ is_market_open /\ ~shutdown_event )
        => ~shutdown_event' ]_vars

\* C16 (as claimed): once on_noreconnect has run, process_eod_data is
\* eventually called (and shutdown_event is set from then on).
C16_EodAfterNoReconnect ==
    /\ [](noreconnect_called => shutdown_event)
    /\ noreconnect_called ~> (eod_calls > 0)

\* C17: the step in which the flusher's to_csv fails takes the flusher back to
\* the head of its loop and leaves in_memory_ticks as it is: the snapshot is
\* not put back, and the buffer holds exactly the records appended after the
\* last drain.
C17_FailedFlushLeavesBuffer ==
    [][ ( /\ flusher_pc = "write"
          /\ failures' # failures
          /\ UNCHANGED eod_vars )
        => /\ flusher_pc' = "head"
           /\ in_memory_ticks' = in_memory_ticks
           /\ temp_dir' = temp_dir
           /\ appended' = Flatten(drained') \o in_memory_ticks' ]_vars

\* The flusher's first write failed and its next cycle wrote the next
\* snapshot: the only batch file holds the second drain, the first is lost.
C17_Witness ==
    /\ eod_pc = "idle"
    /\ failures = 1
    /\ Len(drained) = 2
    /\ flusher_pc = "head"
    /\ \E f \in temp_dir : temp_dir = {f} /\ f.rows = CsvRows(drained[2])

\* C18: a flusher cycle that finds in_memory_ticks empty goes back to the head
\* of the loop without writing, the buffer and TEMP_DATA_DIR unchanged; and
\* every batch file of TEMP_DATA_DIR, written by the flusher or by the final
\* drain, holds at least one record.
C18_EmptyCycleNoFile ==
    /\ [](\A f \in temp_dir : f.rows # <<>>)
    /\ [][ ( /\ flusher_pc = "sleep" /\ flusher_pc' # "sleep"
             /\ in_memory_ticks = <<>> )
           => /\ flusher_pc' = "head"
              /\ UNCHANGED <<in_memory_ticks, temp_dir, fclock>> ]_vars

\* After a flush that wrote a batch file, a cycle found the buffer empty: the
\* flusher is back at the head of its loop with an empty snapshot and the
\* directory holds the one file, before any final drain.
C18_Witness ==
    /\ eod_pc = "idle"
    /\ Len(drained) = 1
    /\ Cardinality(temp_dir) = 1
    /\ flusher_pc = "head"
    /\ data_to_save = <<>>
    /\ in_memory_ticks = <<>>

\* C19: when the credentials could not be fetched, or lack a key, or building
\* the feed client raised, the program has exited with status 1 as soon as it
\* is past startup, no thread started, kws.connect() not called and
\* process_eod_data not run.
C19_FatalStartup ==
    (main_pc # "startup" /\ (credentials # "complete" \/ kws = None)) =>
        /\ main_pc = "exited" /\ exit_code = 1
        /\ mgr_pc = "idle" /\ flusher_pc = "idle"
        /\ ~connect_called
        /\ eod_calls = 0

\* The credentials were complete and building the feed client raised: the
\* program has exited.
C19_Witness ==
    /\ main_pc = "exited"
    /\ credentials = "complete"
    /\ kws = None

\* The threads inside the "with data_lock:" block: on_ticks while it appends
\* its batch, save_periodic_data between its snapshot and its clear,
\* process_eod_data during its final drain.
InCriticalSection ==
    {t \in {"feed", "flusher", "main"} :
        \/ t = "feed" /\ feed_pc = "on_ticks_append"
        \/ t = "flusher" /\ flusher_pc = "clear"
        \/ t = "main" /\ eod_pc = "locked"}

\* The positions of process_eod_data that write or read a batch file, or work
\* on the artifact.
EodFileSteps == {"save_remaining", "list", "load", "process", "close", "upload"}

\* C20: at most one of an on_ticks append batch, the periodic drain and the
\* final drain is inside the data_lock critical section, the lock is owned by
\* exactly the thread that is inside, and the lock is not held by a thread
\* that is at a to_csv or read_csv step: the flusher has released it when it
\* writes its batch file, process_eod_data when it writes or reads files.
C20_LockExcludesAndSkipsIO ==
    /\ Cardinality(InCriticalSection) <= 1
    /\ InCriticalSection = IF data_lock = "none" THEN {} ELSE {data_lock}
    /\ flusher_pc = "write" => data_lock # "flusher"
    /\ eod_pc \in EodFileSteps => data_lock # "main"

\* The flusher is about to write its batch file while on_ticks is inside the
\* critical section appending the next batch.
C20_Witness ==
    /\ flusher_pc = "write"
    /\ feed_pc = "on_ticks_append"
    /\ data_lock = "feed"
    /\ data_to_save # <<>>

\* C21 (as claimed): whenever shutdown_event is set while the main thread is
\* inside kws.connect() (set by the session manager at the EOD threshold, by
\* on_close or by on_noreconnect), the main thread eventually leaves
\* kws.connect() and process_eod_data is called.
C21_EventLeadsToEod ==
    (shutdown_event /\ main_pc = "connect") ~> (eod_calls > 0)

\* C22 (as claimed): on every EOD trigger the session manager calls kws.stop()
\* whatever the connection state of the feed, and it does so before it sets
\* shutdown_event and before it leaves its loop: once the manager is past the
\* stop step of a trigger, kws.stop() has been called for that trigger, and
\* once it has left the loop after a trigger the event is set.
C22_StopOnEveryTrigger ==
    /\ mgr_stop_calls = mgr_eod_runs
    /\ (mgr_pc = "set" /\ ~shutdown_event) => stop_requested
    /\ (mgr_pc = "done" /\ mgr_eod_runs > 0) => (stop_requested /\ shutdown_event)

\* The first chunk of the call that had data to process.
FirstNonEmptyChunk ==
    CHOOSE k \in 1..Len(chunk_log) :
        /\ chunk_log[k].outcome # "no_data"
        /\ \A j \in 1..(k - 1) : chunk_log[j].outcome = "no_data"

\* C23 (as claimed): the writer, once opened, was opened on the first
\* non-empty chunk of the call and with that chunk's schema.
C23_OpenedOnFirstNonEmptyChunk ==
    writer # "none" => schema = FirstNonEmptyChunk

\* A step of one process_eod_data call, the call's beginning excluded.
WithinCall == eod_calls' = eod_calls /\ eod_pc # "acquire"

\* C23 (amended): within one process_eod_data call the writer goes from not
\* opened to open to closed and never back; it is opened while a non-empty
\* chunk is processed, with that chunk's schema, which stays the schema from
\* then on; that chunk is the first non-empty one when no step failed, and in
\* any case no earlier chunk was written; write_table adds a chunk to the file
\* only while the writer is open; the writer is closed only after the last
\* chunk was passed, the upload starts only with the writer closed, and a call
\* that opened the writer returns with it closed unless close() itself raised.
C23_WriterLifecycle ==
    /\ [][ WithinCall =>
             \/ writer' = writer
             \/ writer = "none" /\ writer' = "open"
             \/ writer = "open" /\ writer' = "closed" ]_vars
    /\ [][ (writer = "none" /\ writer' = "open") =>
             /\ eod_pc = "process" /\ chunk_data # <<>>
             /\ schema' = chunk_num ]_vars
    /\ [][ (WithinCall /\ writer # "none") => schema' = schema ]_vars
    /\ []( writer # "none" =>
             /\ \A k \in 1..Len(chunk_log) :
                    k < schema => chunk_log[k].outcome # "written"
             /\ failures = 0 => schema = FirstNonEmptyChunk )
    /\ [][ (artifact'.chunks # artifact.chunks /\ artifact'.chunks # <<>>) =>
             /\ WithinCall /\ writer' = "open"
             /\ \E e \in {artifact'.chunks[Len(artifact'.chunks)]} :
                    artifact'.chunks =
                        Append(IF writer = "none" THEN <<>> ELSE artifact.chunks, e) ]_vars
    /\ []( writer = "closed" => Len(chunk_log) = NumChunks(Len(temp_files)) )
    /\ []( eod_pc = "upload" => writer = "closed" )
    /\ [][ s3_object' # s3_object => writer = "closed" ]_vars
    /\ []( (eod_pc = "returned" /\ writer = "open") =>
              eod_results[Len(eod_results)] = "failed" )

\* The first chunk failed before the writer was opened; the writer was opened
\* on the second chunk, closed, and the file uploaded.
C23_Witness ==
    /\ eod_calls = 1 /\ eod_pc = "returned"
    /\ writer = "closed"
    /\ schema = 2
    /\ Len(artifact.chunks) = 1
    /\ s3_object.exists

\* C24 (as claimed): a later consolidation run includes no batch file left in
\* TEMP_DATA_DIR by an earlier one.  Between the first call's return and the
\* second call no tick arrives and no batch file is created, so every file
\* the second call finds was left by the first: after a first call that
\* sealed its FinalArtifact, and with no I/O failure, the second call writes
\* no chunk to the FinalArtifact.
C24_NoStaleFileConsolidated ==
    (eod_calls = 2 /\ eod_pc # "acquire" /\ eod_results[1] = "sealed"
        /\ failures = 0) =>
        \A k \in 1..Len(chunk_log) :
            chunk_log[k].outcome = "written" => chunk_log[k].src = {}

\* C25 (as claimed): no chunk written to the FinalArtifact holds two rows that
\* are equal in every field after normalization.
C25_NoEqualRowsInChunk ==
    \A k \in 1..Len(artifact.chunks) :
        \A i, j \in 1..Len(artifact.chunks[k].rows) :
            artifact.chunks[k].rows[i] = artifact.chunks[k].rows[j] => i = j

\* The call is past its listing and has not ended at the listing.
InChunkLoop == listed /\ temp_files # <<>>

\* C26: the listing holds names of batch files of TEMP_DATA_DIR, each once
\* and sorted, and is cut into consecutive chunks of at most CHUNK_SIZE names: the
\* chunks are passed in list order, the files read for chunk k are files of
\* the k-th slice of the listing (all of them when no read failed), every name
\* of an earlier chunk sorts before every name of a later one, every name is
\* in one chunk once the loop has ended, and a final-drain batch
\* (ticks_last_flush_...) is the last name of the last chunk.
C26_ChunkPartition ==
    InChunkLoop =>
        /\ Range(temp_files) \subseteq { NameOf(f) : f \in temp_dir }
        /\ \A j \in 1..(Len(temp_files) - 1) : NameLess(temp_files[j], temp_files[j + 1])
        /\ chunk_i = Len(chunk_log) * CHUNK_SIZE
        /\ eod_pc \in {"load", "process"} =>
               /\ chunk_i < Len(temp_files)
               /\ file_j \in (chunk_i + 1)..(Min(chunk_i + CHUNK_SIZE, Len(temp_files)) + 1)
               /\ chunk_src = { temp_files[j] : j \in (chunk_i + 1)..(file_j - 1) } \cap consumed
               /\ chunk_src \subseteq ChunkNames(chunk_num)
        /\ eod_pc \in {"close", "upload", "returned"} =>
               /\ Len(chunk_log) = NumChunks(Len(temp_files))
               /\ UNION { ChunkNames(k) : k \in 1..Len(chunk_log) } = Range(temp_files)
        /\ \A k \in 1..Len(chunk_log) :
               /\ chunk_log[k].src \subseteq ChunkNames(k)
               /\ failures = 0 => chunk_log[k].src = ChunkNames(k)
               /\ Cardinality(ChunkNames(k)) <= CHUNK_SIZE
               /\ \A l \in (k + 1)..Len(chunk_log) :
                      \A a \in ChunkNames(k), b \in ChunkNames(l) : NameLess(a, b)
        /\ \A j \in 1..Len(temp_files) :
               temp_files[j].kind = 1 =>
                   /\ j = Len(temp_files)
                   /\ temp_files[j] \in ChunkNames(NumChunks(Len(temp_files)))

\* A listing of MaxFiles batch files and the final-drain batch was cut into
\* two chunks, both written, the final-drain batch in the second.
C26_Witness ==
    /\ eod_calls = 1 /\ eod_pc = "returned"
    /\ Len(temp_files) = MaxFiles + 1
    /\ temp_files[Len(temp_files)].kind = 1
    /\ Len(chunk_log) = 2
    /\ Cardinality(chunk_log[1].src) = CHUNK_SIZE
    /\ temp_files[Len(temp_files)] \in chunk_log[2].src

\* C27 (as claimed): within each chunk written to the FinalArtifact, every two
\* consecutive rows are in strictly increasing order of
\* (timestamp, instrument_token).
C27_StrictlyOrderedChunks ==
    \A k \in 1..Len(artifact.chunks) :
        \A i \in 1..(Len(artifact.chunks[k].rows) - 1) :
            RowLess(artifact.chunks[k].rows[i], artifact.chunks[k].rows[i + 1])

\* The phase of the session, read off the program's state: 1 WAITING_FOR_OPEN
\* (no thread started yet), 2 ACTIVE (the manager is monitoring and the event
\* is not set), 3 EOD_TRIGGERED (the manager is in its shutdown sequence, or
\* the event is set), 4 CLOSED (consolidation has begun, or the process has
\* exited).
SessionPhase ==
    IF eod_calls > 0 \/ main_pc = "exited" THEN 4
    ELSE IF mgr_pc = "idle" THEN 1
    ELSE IF shutdown_event \/ mgr_pc \in {"stop", "set", "done"} THEN 3
    ELSE 2

\* C28: within a run the session phase never moves back; once shutdown_event
\* is set, the manager's next pass of its loop ends the loop, and a manager
\* that has left its loop stays out of it; once process_eod_data has been
\* called, no thread is started and kws.connect() is not called.
C28_PhaseMovesForward ==
    /\ [][ SessionPhase' >= SessionPhase ]_vars
    /\ [][ (shutdown_event /\ mgr_pc = "head" /\ mgr_pc' # "head") =>
               mgr_pc' = "done" ]_vars
    /\ [][ mgr_pc = "done" => mgr_pc' = "done" ]_vars
    /\ [][ eod_calls > 0 =>
             /\ mgr_pc = "idle" => mgr_pc' = "idle"
             /\ flusher_pc = "idle" => flusher_pc' = "idle"
             /\ main_pc' \notin {"start_threads", "call_connect", "connect"}
             /\ connect_called' = connect_called ]_vars

\* The run waited over a midnight for the open, ran a session in which the
\* event was set by on_close before the EOD threshold, and has consolidated
\* and exited with the manager out of its loop.
C28_Witness ==
    /\ main_pc = "exited" /\ path = "session"
    /\ elapsed = 1
    /\ tick_calls > 0
    /\ mgr_pc = "done" /\ mgr_eod_runs = 0
    /\ eod_calls = 1

\* C29 (as claimed): with shutdown_event set, a pass of wait_for_market_open's
\* loop does not go on waiting: the function returns.
C29_WaitReturnsOnEvent ==
    [][ (shutdown_event /\ main_pc = "wait" /\ main_pc' # "wait") =>
            main_pc' = "recheck" ]_vars

\* C30 (as claimed): while kws.connect() has not returned and on_ticks is
\* appending to in_memory_ticks, save_periodic_data has not left its loop.
C30_FlusherRunsWhileFeedDelivers ==
    (main_pc = "connect" /\ feed_pc = "on_ticks_append") => flusher_pc # "done"

\* C31: the flusher tests shutdown_event only at the head of its loop, before
\* the timer sleep: once the event is set no new cycle begins (the sleep is
\* entered only with the event unset), so at most the cycle under way when it
\* was set drains and writes; a cycle goes sleep, drain, write and back to the
\* head, the next test at the head then ends the loop, and a flusher that
\* left its loop stays out.
C31_FlusherStopsAfterOneCycle ==
    /\ [][ (shutdown_event /\ flusher_pc' = "sleep") => flusher_pc = "sleep" ]_vars
    /\ [][ (flusher_pc = "sleep" /\ flusher_pc' # "sleep") =>
               flusher_pc' \in {"clear", "head"} ]_vars
    /\ [][ (flusher_pc = "clear" /\ flusher_pc' # "clear") =>
               flusher_pc' = "write" ]_vars
    /\ [][ (flusher_pc = "write" /\ flusher_pc' # "write") =>
               flusher_pc' = "head" ]_vars
    /\ [][ (shutdown_event /\ flusher_pc = "head" /\ flusher_pc' # "head") =>
               flusher_pc' = "done" ]_vars
    /\ [][ flusher_pc = "done" => flusher_pc' = "done" ]_vars

\* The event was set during the flusher's sleep, by the manager's EOD
\* sequence, while kws.connect() is running; the flusher has since drained a
\* snapshot and is about to write it.
C31_Witness ==
    /\ shutdown_event
    /\ main_pc = "connect"
    /\ mgr_pc = "done" /\ mgr_eod_runs = 1
    /\ flusher_pc = "write"
    /\ data_to_save # <<>>

\* C32 (as claimed): when process_eod_data has closed the writer and reports
\* total_rows_processed (line 555), the count equals the number of rows
\* written to the FinalArtifact, whatever chunk failed on the way.
C32_ReportedCountIsRowsWritten ==
    writer = "closed" => total_rows_processed = Len(ArtifactRows)

\* C33 (as claimed): a step of generate_access_token_and_update_secret that
\* changes the stored secret is a successful update with the local key and
\* secret set and a session generated, and every field of the secret other
\* than API_KEY, API_SECRET and ACCESS_TOKEN is present afterwards with the
\* value it had, however get_current_secret_data ended.
C33_OnlyTokenFieldsChange ==
    [][ stored_secret' # stored_secret =>
          /\ LOCAL_API_KEY # None /\ LOCAL_API_SECRET # None
          /\ access_token # None
          /\ \A f \in (DOMAIN stored_secret.data) \ TokenFields :
                 /\ f \in DOMAIN stored_secret'.data
                 /\ stored_secret'.data[f] = stored_secret.data[f] ]_vars

====
